---- MODULE Spec2Model ----
(***************************************************************************)
(* State-machine model of three RxJS operator subscribers:                 *)
(*   WindowSubscriber   (src/src/operator/windowWhen.ts)                   *)
(*   DistinctSubscriber (src/src/operator/distinct.ts)                     *)
(*   IsEmptySubscriber  (src/src/operator/isEmpty.ts)                      *)
(* The library is single threaded: every external callback (a source       *)
(* event, a notifier event, an unsubscribe) runs to completion, so each    *)
(* one is a single atomic action.  Synchronous calls made by a handler are *)
(* operators on a record of the subscriber's state.                        *)
(*                                                                         *)
(* Subscription, Subscriber, Subject, InnerSubscriber and                  *)
(* subscribeToResult are imported by the operators but are not part of the *)
(* sources at hand; they are modelled from the written specification       *)
(* (sections 3, 4.1, 4.2, 4.4, 4.7, 5 and 7).                              *)
(***************************************************************************)
EXTENDS Integers, Sequences, FiniteSets, TLC

\* ------------------------------------------------------------------ bounds
MaxSrc == 2          \* source values pushed in one run
MaxWindows == 3      \* windows created in one run
MaxPlan == 2         \* closingSelector outcomes planned for one handler

MaxDSrc == 5         \* values pushed into Distinct in one run
MaxFlush == 1        \* values emitted by the flushes notifier in one run
MaxISrc == 3         \* events a source pushes into IsEmpty in one run

Vals == {1, 2}       \* the values a source pushes into WindowWhen
DVals == {1, 2, 3}   \* the values a source pushes into Distinct
IVals == {0, 1, 2}   \* the values a source pushes into IsEmpty; 0 is falsy
Errs == {1, 2}       \* the error objects that are thrown or pushed

VARIABLES
  \* ---- WindowSubscriber and its collaborators
  window,               \* this.window: index into subjects, 0 = undefined
  closingNotification,  \* this.closingNotification: index into inners, 0 = undefined
  wClosed,              \* WindowSubscriber.isUnsubscribed
  wChildren,            \* child resources tracked by the WindowSubscriber
  subjects,             \* every Subject created by openWindow, in creation order
  inners,               \* InnerSubscriber of the notifier of window k
  wDest,                \* state of the outer destination Subscriber
  wLog,                 \* effects in the order the code produced them
  wSrcSub,              \* the source subscription
  wSrcState             \* the source producer: "active" or "done"

VARIABLES
  \* ---- DistinctSubscriber and its collaborators
  values,               \* this.values: the memory
  compare,              \* this.compare: the comparator in use
  flushSubscription,    \* this.flushSubscription: "none", "active", "closed"
  dClosed,              \* DistinctSubscriber.isUnsubscribed
  dDest,                \* state of the destination Subscriber
  dLog,                 \* effects in the order the code produced them
  dSrcSub,              \* the source subscription
  dSrcState,            \* the source producer: "active" or "done"
  flushState,           \* the flushes producer: "active" or "done"
  flushCount            \* values emitted by flushes so far

VARIABLES
  \* ---- IsEmptySubscriber and its collaborators
  iClosed,              \* IsEmptySubscriber.isUnsubscribed
  iDest,                \* state of the destination Subscriber
  iLog,                 \* effects in the order the code produced them
  iSrcSub,              \* the source subscription
  iIn                   \* every event the source pushed, taken or not

wvars == <<window, closingNotification, wClosed, wChildren, subjects, inners,
           wDest, wLog, wSrcSub, wSrcState>>

dvars == <<values, compare, flushSubscription, dClosed, dDest, dLog, dSrcSub,
           dSrcState, flushState, flushCount>>

ivars == <<iClosed, iDest, iLog, iSrcSub, iIn>>

vars == <<wvars, dvars, ivars>>

\* ------------------------------------------------------------ tiny helpers
Ev(op, id, v) == [op |-> op, id |-> id, v |-> v]

Res(t, id) == [t |-> t, id |-> id]

Emit(s, e) == [s EXCEPT !.log = Append(@, e)]

NewSubject == [vals |-> <<>>, st |-> "open", err |-> 0, unsub |-> FALSE]

\* What closingSelector does on one call: throw, or return a notifier that
\* is silent while being subscribed ("async") or that emits / completes /
\* errors synchronously inside subscribe.
Outcomes ==
  {[kind |-> k, e |-> 0] : k \in {"async", "syncNext", "syncComplete"}}
  \cup {[kind |-> k, e |-> e] : k \in {"throw", "syncError"}, e \in Errs}

\* The outcomes of the closingSelector calls made inside one handler, in call
\* order; calls beyond the plan return a silent notifier.  Only a notifier
\* that emits or completes while being subscribed leads to another call, so
\* every outcome but the last is one of those.
SelPlans ==
  {p \in UNION {[1..n -> Outcomes] : n \in 0..MaxPlan} :
     \A i \in 1..(Len(p) - 1) : p[i].kind \in {"syncNext", "syncComplete"}}

\* ------------------------------------------------- Subject (a window)
\* A Subject is a broadcast channel that obeys the terminal-state protocol:
\* after error or complete, and after unsubscribe, deliveries are dropped.
SubjectNext(s, k, v) ==
  IF s.subjects[k].st = "open" /\ ~s.subjects[k].unsub
    THEN Emit([s EXCEPT !.subjects[k].vals = Append(@, v)], Ev("win.next", k, v))
    ELSE s

SubjectError(s, k, e) ==
  IF s.subjects[k].st = "open" /\ ~s.subjects[k].unsub
    THEN Emit([s EXCEPT !.subjects[k].st = "errored", !.subjects[k].err = e],
              Ev("win.error", k, e))
    ELSE s

SubjectComplete(s, k) ==
  IF s.subjects[k].st = "open" /\ ~s.subjects[k].unsub
    THEN Emit([s EXCEPT !.subjects[k].st = "completed"], Ev("win.complete", k, 0))
    ELSE s

SubjectUnsubscribe(s, k) ==
  IF s.subjects[k].unsub
    THEN s
    ELSE Emit([s EXCEPT !.subjects[k].unsub = TRUE], Ev("unsub.win", k, 0))

\* ------------------------------------------------- Subscription
\* InnerSubscriber.unsubscribe: idempotent.
InnerUnsubscribe(s, k) ==
  IF s.inners[k] = "active"
    THEN Emit([s EXCEPT !.inners[k] = "closed"], Ev("unsub.cn", k, 0))
    ELSE s

SourceUnsubscribe(s) ==
  IF s.srcSub = "active"
    THEN Emit([s EXCEPT !.srcSub = "closed"], Ev("unsub.src", 0, 0))
    ELSE s

\* child.unsubscribe() for a tracked child resource.
Dispose(s, r) ==
  CASE r.t = "win" -> SubjectUnsubscribe(s, r.id)
    [] r.t = "cn"  -> InnerUnsubscribe(s, r.id)
    [] r.t = "src" -> SourceUnsubscribe(s)

RECURSIVE DisposeAll(_, _, _)
RECURSIVE unsubscribe(_, _)

\* Subscription.unsubscribe: active -> closed exactly once; the first call
\* disposes every tracked child and clears the tracking set.  re = TRUE has
\* every child's teardown call unsubscribe on the parent again.
unsubscribe(s, re) ==
  IF s.closed
    THEN s
    ELSE DisposeAll([s EXCEPT !.closed = TRUE, !.children = <<>>], s.children, re)

DisposeAll(s, cs, re) ==
  IF cs = <<>>
    THEN s
    ELSE LET s1 == Dispose(s, Head(cs))
             s2 == IF re THEN unsubscribe(s1, re) ELSE s1
         IN  DisposeAll(s2, Tail(cs), re)

InChildren(s, r) == \E i \in 1..Len(s.children) : s.children[i] = r

\* Subscription.add: a child added to a closed parent is disposed at once.
add(s, r) ==
  IF s.closed
    THEN Dispose(s, r)
    ELSE IF InChildren(s, r)
           THEN s
           ELSE [s EXCEPT !.children = Append(@, r)]

\* Subscription.remove: detach without disposing.
remove(s, r) ==
  [s EXCEPT !.children = SelectSeq(@, LAMBDA c : c # r)]

\* ------------------------------------------------- destination Subscriber
\* The outer destination is a Subscriber: calls after its terminal event are
\* dropped (the log keeps them as "dest.late"), and its terminal event closes
\* the chain feeding it.
DestNext(s, k) ==
  IF s.dest = "active"
    THEN Emit(s, Ev("dest.next", k, 0))
    ELSE Emit(s, Ev("dest.late", 0, 0))

DestError(s, e) ==
  IF s.dest = "active"
    THEN unsubscribe(Emit([s EXCEPT !.dest = "errored"], Ev("dest.error", 0, e)), FALSE)
    ELSE Emit(s, Ev("dest.late", 0, 0))

DestComplete(s) ==
  IF s.dest = "active"
    THEN unsubscribe(Emit([s EXCEPT !.dest = "completed"], Ev("dest.complete", 0, 0)), FALSE)
    ELSE Emit(s, Ev("dest.late", 0, 0))

\* ------------------------------------------------- WindowSubscriber
RECURSIVE openWindow(_, _, _)

\* windowWhen.ts 37-41
notifyNext(s, innerSub, sel) == openWindow(s, innerSub, sel)

\* A notifier's completion treated as a no-op.
notifyComplete_Ignore(s, innerSub, sel) == s

\* A notifier's completion closing the window without opening the next.
notifyComplete_CloseOnly(s, innerSub, sel) ==
  LET s1 == InnerUnsubscribe(remove(s, Res("cn", innerSub)), innerSub)
  IN  SubjectComplete(s1, s1.window)

\* windowWhen.ts 47-49
notifyComplete(s, innerSub, sel) == openWindow(s, innerSub, sel)

\* windowWhen.ts 67-71
unsubscribeClosingNotification(s) ==
  IF s.closingNotification # 0
    THEN InnerUnsubscribe(s, s.closingNotification)
    ELSE s

\* The first window kept instead of the current one.
WindowSubscriber_next_Stale(s, v) == SubjectNext(s, 1, v)

\* windowWhen.ts 51-53
WindowSubscriber_next(s, v) == SubjectNext(s, s.window, v)

\* windowWhen.ts 55-59
WindowSubscriber_error(s, e) ==
  LET s1 == SubjectError(s, s.window, e)
      s2 == DestError(s1, e)
  IN  unsubscribeClosingNotification(s2)

\* The outer destination completed before the window.
WindowSubscriber_complete_DestFirst(s) ==
  LET s1 == DestComplete(s)
      s2 == SubjectComplete(s1, s1.window)
  IN  unsubscribeClosingNotification(s2)

\* windowWhen.ts 61-65
WindowSubscriber_complete(s) ==
  LET s1 == SubjectComplete(s, s.window)
      s2 == DestComplete(s1)
  IN  unsubscribeClosingNotification(s2)

\* A notifier's error swallowed.
notifyError_Ignore(s, e, innerSub) == s

\* windowWhen.ts 43-45
notifyError(s, e, innerSub) == WindowSubscriber_error(s, e)

\* InnerSubscriber: reports each event it accepts to the outer subscriber;
\* a terminal event closes the inner subscriber afterwards.
InnerNext(s, k, sel) ==
  IF s.inners[k] = "active"
    THEN notifyNext(Emit(s, Ev("cn.next", k, 0)), k, sel)
    ELSE s

InnerComplete(s, k, sel) ==
  IF s.inners[k] = "active"
    THEN InnerUnsubscribe(notifyComplete(Emit(s, Ev("cn.complete", k, 0)), k, sel), k)
    ELSE s

InnerError(s, k, e) ==
  IF s.inners[k] = "active"
    THEN InnerUnsubscribe(notifyError(Emit(s, Ev("cn.error", k, e)), e, k), k)
    ELSE s

\* subscribeToResult(outer, notifier): subscribes the notifier through a
\* fresh InnerSubscriber; whatever the notifier pushes while being subscribed
\* is delivered before the call returns.
subscribeToResult(s, k, out, sel) ==
  LET s1 == Emit([s EXCEPT !.inners[k] = "active"], Ev("cn.subscribe", k, 0))
  IN  CASE out.kind = "async"        -> s1
        [] out.kind = "syncNext"     -> InnerNext(s1, k, sel)
        [] out.kind = "syncComplete" -> InnerComplete(s1, k, sel)
        [] out.kind = "syncError"    -> InnerError(s1, k, out.e)

\* The notifier that triggered the switch left subscribed.
openWindow_detach_Skip(s, innerSub) == s

\* windowWhen.ts 74-77: a notifier that triggered the switch is detached
\* and unsubscribed.  innerSub = 0 stands for the default null.
openWindow_detach(s, innerSub) ==
  IF innerSub # 0
    THEN InnerUnsubscribe(remove(s, Res("cn", innerSub)), innerSub)
    ELSE s

\* The previous window left open.
openWindow_closePrev_Skip(s) == s

\* windowWhen.ts 79-82
openWindow_closePrev(s) ==
  LET prevWindow == s.window
  IN  IF prevWindow # 0 THEN SubjectComplete(s, prevWindow) ELSE s

\* windowWhen.ts 84-85
openWindow_emit(s) ==
  LET w  == Len(s.subjects) + 1
      s1 == [s EXCEPT !.subjects = Append(@, NewSubject),
                      !.inners = Append(@, "none"),
                      !.window = w]
  IN  DestNext(s1, w)

\* The thrown error given to the window only.
openWindow_onThrow_WindowOnly(s, e) == SubjectError(s, s.window, e)

\* windowWhen.ts 89-91: closingSelector threw e.
openWindow_onThrow(s, e) ==
  LET s1 == DestError(s, e)
  IN  SubjectError(s1, s1.window, e)

\* The new window not tracked as a child.
openWindow_onNotifier_NoTrack(s, w, out, rest) ==
  LET s1 == subscribeToResult(s, w, out, rest)
  IN  add([s1 EXCEPT !.closingNotification = w], Res("cn", w))

\* windowWhen.ts 93-94: closingSelector returned a notifier; w is the local
\* constant window.
openWindow_onNotifier(s, w, out, rest) ==
  LET s1 == subscribeToResult(s, w, out, rest)
      s2 == add([s1 EXCEPT !.closingNotification = w], Res("cn", w))
  IN  add(s2, Res("win", w))

\* windowWhen.ts 73-96.  sel is the plan of closingSelector outcomes still to
\* be consumed.
openWindow(s, innerSub, sel) ==
  LET s1 == openWindow_emit(openWindow_closePrev(openWindow_detach(s, innerSub)))
      w  == s1.window
      out == IF sel = <<>> THEN [kind |-> "async", e |-> 0] ELSE Head(sel)
      rest == IF sel = <<>> THEN <<>> ELSE Tail(sel)
      s2 == Emit(s1, Ev("selector", w, 0))
  IN  IF out.kind = "throw"
        THEN openWindow_onThrow(Emit(s2, Ev("throw", w, out.e)), out.e)
        ELSE openWindow_onNotifier(s2, w, out, rest)

\* ------------------------------------------------- Subscriber (base class)
\* next/error/complete first check the terminal-state flag; error and
\* complete run the hook and then close the subscriber.
WindowSubscriber_Next(s, v) ==
  IF s.closed
    THEN s
    ELSE WindowSubscriber_next(Emit(s, Ev("src.next", 0, v)), v)

WindowSubscriber_Error(s, e) ==
  IF s.closed
    THEN s
    ELSE unsubscribe(WindowSubscriber_error(Emit(s, Ev("src.error", 0, e)), e), FALSE)

WindowSubscriber_Complete(s) ==
  IF s.closed
    THEN s
    ELSE unsubscribe(WindowSubscriber_complete(Emit(s, Ev("src.complete", 0, 0))), FALSE)

\* ------------------------------------------------- state <-> record
W ==
  [window |-> window, closingNotification |-> closingNotification,
   closed |-> wClosed, children |-> wChildren, subjects |-> subjects,
   inners |-> inners, dest |-> wDest, log |-> wLog, srcSub |-> wSrcSub]

SetW(r) ==
  /\ window' = r.window
  /\ closingNotification' = r.closingNotification
  /\ wClosed' = r.closed
  /\ wChildren' = r.children
  /\ subjects' = r.subjects
  /\ inners' = r.inners
  /\ wDest' = r.dest
  /\ wLog' = r.log
  /\ wSrcSub' = r.srcSub

\* The fields of a WindowSubscriber before its constructor body runs, with
\* the subscription to the source already tracked.
W0 ==
  [window |-> 0, closingNotification |-> 0, closed |-> FALSE,
   children |-> <<Res("src", 0)>>, subjects |-> <<>>, inners |-> <<>>,
   dest |-> "active", log |-> <<>>, srcSub |-> "active"]

\* windowWhen.ts 31-35: the constructor opens the first window.
WindowInit ==
  \E sel \in SelPlans :
    LET r == openWindow(W0, 0, sel)
    IN  /\ Len(r.subjects) <= MaxWindows
        /\ window = r.window
        /\ closingNotification = r.closingNotification
        /\ wClosed = r.closed
        /\ wChildren = r.children
        /\ subjects = r.subjects
        /\ inners = r.inners
        /\ wDest = r.dest
        /\ wLog = r.log
        /\ wSrcSub = r.srcSub
        /\ wSrcState = "active"

\* ------------------------------------------------- actions
\* The values the WindowSubscriber has taken from the source, in order.
RECURSIVE ValuesOf(_)
ValuesOf(es) ==
  IF es = <<>> THEN <<>> ELSE <<Head(es).v>> \o ValuesOf(Tail(es))

WSrcSeq == ValuesOf(SelectSeq(wLog, LAMBDA e : e.op = "src.next"))

\* The plans worth trying when the notifier of window k pushes an event: none
\* when its InnerSubscriber is closed (the event is dropped before any call
\* of closingSelector), and otherwise those that fit in MaxWindows.
PlansFor(k) ==
  IF inners[k] = "active"
    THEN {p \in SelPlans : Len(subjects) + Len(p) <= MaxWindows}
    ELSE {<<>>}

\* The source pushes a value.
SourceNext ==
  \E v \in Vals :
    /\ wSrcState = "active"
    /\ Len(WSrcSeq) < MaxSrc
    /\ SetW(WindowSubscriber_Next(W, v))
    /\ UNCHANGED <<wSrcState, dvars, ivars>>

\* The source errors.
SourceError ==
  \E e \in Errs :
    /\ wSrcState = "active"
    /\ SetW(WindowSubscriber_Error(W, e))
    /\ wSrcState' = "done"
    /\ UNCHANGED <<dvars, ivars>>

\* The source completes.
SourceComplete ==
  /\ wSrcState = "active"
  /\ SetW(WindowSubscriber_Complete(W))
  /\ wSrcState' = "done"
  /\ UNCHANGED <<dvars, ivars>>

\* The notifier subscribed for window k emits a value.
NotifierNext ==
  \E k \in 1..Len(inners) : \E sel \in PlansFor(k) :
    /\ inners[k] # "none"
    /\ LET r == InnerNext(W, k, sel)
       IN  Len(r.subjects) <= MaxWindows /\ SetW(r)
    /\ UNCHANGED <<wSrcState, dvars, ivars>>

\* The notifier subscribed for window k completes.
NotifierComplete ==
  \E k \in 1..Len(inners) : \E sel \in PlansFor(k) :
    /\ inners[k] # "none"
    /\ LET r == InnerComplete(W, k, sel)
       IN  Len(r.subjects) <= MaxWindows /\ SetW(r)
    /\ UNCHANGED <<wSrcState, dvars, ivars>>

\* The notifier subscribed for window k errors.
NotifierError ==
  \E k \in 1..Len(inners), e \in Errs :
    /\ inners[k] # "none"
    /\ SetW(InnerError(W, k, e))
    /\ UNCHANGED <<wSrcState, dvars, ivars>>

\* The consumer unsubscribes the result of windowWhen.
Unsubscribe ==
  \E re \in BOOLEAN :
    /\ SetW(unsubscribe(W, re))
    /\ UNCHANGED <<wSrcState, dvars, ivars>>

WindowNext ==
  \/ SourceNext
  \/ SourceError
  \/ SourceComplete
  \/ NotifierNext
  \/ NotifierComplete
  \/ NotifierError
  \/ Unsubscribe

\* ================================================= Distinct
\* The comparators a caller may pass.  "default" is the built-in one
\* (distinct.ts 48-50), kept when the argument is not a function.
Comparators == {"default", "mod2", "less", "throwOn12"}

\* compare(x, y): "true", "false", or "throw" when the comparator throws.
CompareResult(c, x, y) ==
  CASE c = "default"   -> IF x = y THEN "true" ELSE "false"
    [] c = "mod2"      -> IF x % 2 = y % 2 THEN "true" ELSE "false"
    [] c = "less"      -> IF x < y THEN "true" ELSE "false"
    [] c = "throwOn12" -> IF x = 1 /\ y = 2 THEN "throw"
                          ELSE IF x = y THEN "true" ELSE "false"

\* The error object the throwing comparator throws on the pair (x, y).
Thrown(x, y) == x

\* Subscription.unsubscribe of the DistinctSubscriber: closes it once and
\* disposes the flush subscription and the source subscription.
DUnsubscribe(s) ==
  IF s.closed
    THEN s
    ELSE LET s1 == [s EXCEPT !.closed = TRUE]
             s2 == IF s1.flushSub = "active"
                     THEN Emit([s1 EXCEPT !.flushSub = "closed"], Ev("unsub.flush", 0, 0))
                     ELSE s1
         IN  IF s2.srcSub = "active"
               THEN Emit([s2 EXCEPT !.srcSub = "closed"], Ev("unsub.src", 0, 0))
               ELSE s2

\* The destination Subscriber of Distinct.
DDestNext(s, v) ==
  IF s.dest = "active"
    THEN Emit(s, Ev("dest.next", 0, v))
    ELSE Emit(s, Ev("dest.late", 0, 0))

DDestError(s, e) ==
  IF s.dest = "active"
    THEN DUnsubscribe(Emit([s EXCEPT !.dest = "errored"], Ev("dest.error", 0, e)))
    ELSE Emit(s, Ev("dest.late", 0, 0))

DDestComplete(s) ==
  IF s.dest = "active"
    THEN DUnsubscribe(Emit([s EXCEPT !.dest = "completed"], Ev("dest.complete", 0, 0)))
    ELSE Emit(s, Ev("dest.late", 0, 0))

\* The memory kept on a flush.
flush_Keep(s) == s

\* distinct.ts 44-46
flush(s) == [s EXCEPT !.values = <<>>]

\* distinct.ts 57-62: the scan from index i (1-based); "found", "throw" with
\* the error thrown, or "none".
RECURSIVE Scan(_, _, _)

\* The comparator called with its arguments swapped.
Scan_Swapped(s, value, i) ==
  IF i > Len(s.values)
    THEN [r |-> "none", e |-> 0]
    ELSE LET c == CompareResult(s.compare, value, s.values[i])
         IN  CASE c = "throw" -> [r |-> "throw", e |-> Thrown(value, s.values[i])]
               [] c = "true"  -> [r |-> "found", e |-> 0]
               [] c = "false" -> Scan(s, value, i + 1)

Scan(s, value, i) ==
  IF i > Len(s.values)
    THEN [r |-> "none", e |-> 0]
    ELSE LET c == CompareResult(s.compare, s.values[i], value)
         IN  CASE c = "throw" -> [r |-> "throw", e |-> Thrown(s.values[i], value)]
               [] c = "true"  -> [r |-> "found", e |-> 0]
               [] c = "false" -> Scan(s, value, i + 1)

\* The comparator's exception swallowed.
DistinctSubscriber_next_Swallow(s, value) ==
  LET sc == Scan(s, value, 1)
  IN  CASE sc.r = "throw" -> Emit(s, Ev("throw", 0, sc.e))
        [] sc.r = "found" -> s
        [] sc.r = "none"  ->
             DDestNext([s EXCEPT !.values = Append(@, value)], value)

\* A suppressed value remembered all the same.
DistinctSubscriber_next_PushAlways(s, value) ==
  LET sc == Scan(s, value, 1)
  IN  CASE sc.r = "throw" -> DDestError(Emit(s, Ev("throw", 0, sc.e)), sc.e)
        [] sc.r = "found" -> [s EXCEPT !.values = Append(@, value)]
        [] sc.r = "none"  ->
             DDestNext([s EXCEPT !.values = Append(@, value)], value)

\* distinct.ts 52-69
DistinctSubscriber_next(s, value) ==
  LET sc == Scan(s, value, 1)
  IN  CASE sc.r = "throw" -> DDestError(Emit(s, Ev("throw", 0, sc.e)), sc.e)
        [] sc.r = "found" -> s
        [] sc.r = "none"  ->
             DDestNext([s EXCEPT !.values = Append(@, value)], value)

\* distinct.ts 71-73: super._complete() forwards to the destination.
DistinctSubscriber_complete(s) == DDestComplete(s)

\* Subscriber._error, not overridden by DistinctSubscriber.
DistinctSubscriber_error(s, e) == DDestError(s, e)

\* Subscriber.next / error / complete of the DistinctSubscriber.
DistinctSubscriber_Next(s, v) ==
  IF s.closed
    THEN s
    ELSE DistinctSubscriber_next(Emit(s, Ev("src.next", 0, v)), v)

DistinctSubscriber_Error(s, e) ==
  IF s.closed
    THEN s
    ELSE DUnsubscribe(DistinctSubscriber_error(s, e))

DistinctSubscriber_Complete(s) ==
  IF s.closed
    THEN s
    ELSE DUnsubscribe(DistinctSubscriber_complete(s))

\* distinct.ts 85-87
FlushSubscriber_next(s) == flush(Emit(s, Ev("flush", 0, 0)))

\* The notifier's completion taken for the main stream's completion.
FlushSubscriber_complete_Completes(s) == DistinctSubscriber_Complete(s)

\* distinct.ts 89-91
FlushSubscriber_complete(s) == s

\* The notifier's error swallowed.
FlushSubscriber_error_Ignore(s, e) == Emit(s, Ev("flush.error", 0, e))

\* distinct.ts 93-95
FlushSubscriber_error(s, e) ==
  DistinctSubscriber_Error(Emit(s, Ev("flush.error", 0, e)), e)

D ==
  [values |-> values, compare |-> compare, flushSub |-> flushSubscription,
   closed |-> dClosed, dest |-> dDest, log |-> dLog, srcSub |-> dSrcSub]

SetD(r) ==
  /\ values' = r.values
  /\ compare' = r.compare
  /\ flushSubscription' = r.flushSub
  /\ dClosed' = r.closed
  /\ dDest' = r.dest
  /\ dLog' = r.log
  /\ dSrcSub' = r.srcSub

\* distinct.ts 29-42: the fields after construction.
DistinctInit ==
  /\ values = <<>>
  /\ compare \in Comparators
  /\ flushSubscription \in {"none", "active"}
  /\ dClosed = FALSE
  /\ dDest = "active"
  /\ dLog = <<>>
  /\ dSrcSub = "active"
  /\ dSrcState = "active"
  /\ flushState = "active"
  /\ flushCount = 0

\* The values the DistinctSubscriber has taken from the source, in order.
DSrcSeq == ValuesOf(SelectSeq(dLog, LAMBDA e : e.op = "src.next"))

\* The source pushes a value into Distinct.
DSourceNext ==
  \E v \in DVals :
    /\ dSrcState = "active"
    /\ Len(DSrcSeq) < MaxDSrc
    /\ SetD(DistinctSubscriber_Next(D, v))
    /\ UNCHANGED <<dSrcState, flushState, flushCount, wvars, ivars>>

\* The source errors.
DSourceError ==
  \E e \in Errs :
    /\ dSrcState = "active"
    /\ SetD(DistinctSubscriber_Error(D, e))
    /\ dSrcState' = "done"
    /\ UNCHANGED <<flushState, flushCount, wvars, ivars>>

\* The source completes.
DSourceComplete ==
  /\ dSrcState = "active"
  /\ SetD(DistinctSubscriber_Complete(D))
  /\ dSrcState' = "done"
  /\ UNCHANGED <<flushState, flushCount, wvars, ivars>>

\* The flushes notifier emits a value.
FlushNext ==
  /\ flushSubscription # "none"
  /\ flushState = "active"
  /\ flushCount < MaxFlush
  /\ SetD(FlushSubscriber_next(D))
  /\ flushCount' = flushCount + 1
  /\ UNCHANGED <<dSrcState, flushState, wvars, ivars>>

\* The flushes notifier completes.
FlushComplete ==
  /\ flushSubscription # "none"
  /\ flushState = "active"
  /\ SetD(FlushSubscriber_complete(D))
  /\ flushState' = "done"
  /\ UNCHANGED <<dSrcState, flushCount, wvars, ivars>>

\* The flushes notifier errors.
FlushError ==
  \E e \in Errs :
    /\ flushSubscription # "none"
    /\ flushState = "active"
    /\ SetD(FlushSubscriber_error(D, e))
    /\ flushState' = "done"
    /\ UNCHANGED <<dSrcState, flushCount, wvars, ivars>>

\* The consumer unsubscribes the result of distinct.
DistinctUnsubscribe ==
  /\ SetD(DUnsubscribe(D))
  /\ UNCHANGED <<dSrcState, flushState, flushCount, wvars, ivars>>

DistinctNext ==
  \/ DSourceNext
  \/ DSourceError
  \/ DSourceComplete
  \/ FlushNext
  \/ FlushComplete
  \/ FlushError
  \/ DistinctUnsubscribe

\* ================================================= IsEmpty
\* A boolean as a log value.
BoolVal(b) == IF b THEN 1 ELSE 0

\* Subscription.unsubscribe of the IsEmptySubscriber: closes it once and
\* disposes the source subscription.
IUnsubscribe(s) ==
  IF s.closed
    THEN s
    ELSE LET s1 == [s EXCEPT !.closed = TRUE]
         IN  IF s1.srcSub = "active"
               THEN Emit([s1 EXCEPT !.srcSub = "closed"], Ev("unsub.src", 0, 0))
               ELSE s1

\* The destination Subscriber of IsEmpty.
IDestNext(s, b) ==
  IF s.dest = "active"
    THEN Emit(s, Ev("dest.next", 0, BoolVal(b)))
    ELSE Emit(s, Ev("dest.late", 0, 0))

IDestError(s, e) ==
  IF s.dest = "active"
    THEN IUnsubscribe(Emit([s EXCEPT !.dest = "errored"], Ev("dest.error", 0, e)))
    ELSE Emit(s, Ev("dest.late", 0, 0))

IDestComplete(s) ==
  IF s.dest = "active"
    THEN IUnsubscribe(Emit([s EXCEPT !.dest = "completed"], Ev("dest.complete", 0, 0)))
    ELSE Emit(s, Ev("dest.late", 0, 0))

\* The boolean delivered without the completion.
IsEmptySubscriber_notifyComplete_NextOnly(s, isEmpty) == IDestNext(s, isEmpty)

\* The completion delivered before the boolean.
IsEmptySubscriber_notifyComplete_CompleteFirst(s, isEmpty) ==
  IDestNext(IDestComplete(s), isEmpty)

\* isEmpty.ts 28-33
IsEmptySubscriber_notifyComplete(s, isEmpty) ==
  IDestComplete(IDestNext(s, isEmpty))

\* A falsy value taken for no value.
IsEmptySubscriber_next_Falsy(s, value) ==
  IsEmptySubscriber_notifyComplete(s, value = 0)

\* isEmpty.ts 35-37
IsEmptySubscriber_next(s, value) == IsEmptySubscriber_notifyComplete(s, FALSE)

\* isEmpty.ts 39-41
IsEmptySubscriber_complete(s) == IsEmptySubscriber_notifyComplete(s, TRUE)

\* A source error answered as an empty source.
IsEmptySubscriber_error_AsEmpty(s, e) == IsEmptySubscriber_notifyComplete(s, TRUE)

\* isEmpty.ts 22-42: the class overrides _next and _complete only, so an
\* error takes Subscriber._error, which forwards it to the destination.
IsEmptySubscriber_error(s, e) == IDestError(s, e)

\* Subscriber.next / error / complete of the IsEmptySubscriber.
IsEmptySubscriber_Next(s, v) ==
  IF s.closed
    THEN s
    ELSE IsEmptySubscriber_next(Emit(s, Ev("src.next", 0, v)), v)

IsEmptySubscriber_Error(s, e) ==
  IF s.closed
    THEN s
    ELSE IUnsubscribe(IsEmptySubscriber_error(Emit(s, Ev("src.error", 0, e)), e))

IsEmptySubscriber_Complete(s) ==
  IF s.closed
    THEN s
    ELSE IUnsubscribe(IsEmptySubscriber_complete(Emit(s, Ev("src.complete", 0, 0))))

I == [closed |-> iClosed, dest |-> iDest, log |-> iLog, srcSub |-> iSrcSub]

SetI(r) ==
  /\ iClosed' = r.closed
  /\ iDest' = r.dest
  /\ iLog' = r.log
  /\ iSrcSub' = r.srcSub

\* isEmpty.ts 24-26: the subscriber after construction and subscription.
IsEmptyInit ==
  /\ iClosed = FALSE
  /\ iDest = "active"
  /\ iLog = <<>>
  /\ iSrcSub = "active"
  /\ iIn = <<>>

\* The source pushes a value into IsEmpty.
ISourceNext ==
  \E v \in IVals :
    /\ Len(iIn) < MaxISrc
    /\ SetI(IsEmptySubscriber_Next(I, v))
    /\ iIn' = Append(iIn, Ev("next", 0, v))
    /\ UNCHANGED <<wvars, dvars>>

\* The source pushes an error into IsEmpty.
ISourceError ==
  \E e \in Errs :
    /\ Len(iIn) < MaxISrc
    /\ SetI(IsEmptySubscriber_Error(I, e))
    /\ iIn' = Append(iIn, Ev("error", 0, e))
    /\ UNCHANGED <<wvars, dvars>>

\* The source pushes its completion into IsEmpty.
ISourceComplete ==
  /\ Len(iIn) < MaxISrc
  /\ SetI(IsEmptySubscriber_Complete(I))
  /\ iIn' = Append(iIn, Ev("complete", 0, 0))
  /\ UNCHANGED <<wvars, dvars>>

\* The consumer unsubscribes the result of isEmpty.
IsEmptyUnsubscribe ==
  /\ SetI(IUnsubscribe(I))
  /\ UNCHANGED <<iIn, wvars, dvars>>

IsEmptyNext ==
  \/ ISourceNext
  \/ ISourceError
  \/ ISourceComplete
  \/ IsEmptyUnsubscribe

\* ================================================= specifications
\* An operator that is not exercised is subscribed to no source and stays
\* as it is.
WindowIdle ==
  /\ window = 0
  /\ closingNotification = 0
  /\ wClosed = FALSE
  /\ wChildren = <<>>
  /\ subjects = <<>>
  /\ inners = <<>>
  /\ wDest = "active"
  /\ wLog = <<>>
  /\ wSrcSub = "none"
  /\ wSrcState = "active"

DistinctIdle ==
  /\ values = <<>>
  /\ compare = "default"
  /\ flushSubscription = "none"
  /\ dClosed = FALSE
  /\ dDest = "active"
  /\ dLog = <<>>
  /\ dSrcSub = "none"
  /\ dSrcState = "active"
  /\ flushState = "active"
  /\ flushCount = 0

IsEmptyIdle ==
  /\ iClosed = FALSE
  /\ iDest = "active"
  /\ iLog = <<>>
  /\ iSrcSub = "none"
  /\ iIn = <<>>

InitWindow == WindowInit /\ DistinctIdle /\ IsEmptyIdle

SpecWindow == InitWindow /\ [][WindowNext]_vars

InitDistinct == DistinctInit /\ WindowIdle /\ IsEmptyIdle

SpecDistinct == InitDistinct /\ [][DistinctNext]_vars

InitIsEmpty == IsEmptyInit /\ WindowIdle /\ DistinctIdle

SpecIsEmpty == InitIsEmpty /\ [][IsEmptyNext]_vars

\* Any one of the three operators, exercised alone.
InitOperators == InitWindow \/ InitDistinct \/ InitIsEmpty

WindowRun == wSrcSub # "none" /\ WindowNext

DistinctRun == dSrcSub # "none" /\ DistinctNext

IsEmptyRun == iSrcSub # "none" /\ IsEmptyNext

OperatorsNext == WindowRun \/ DistinctRun \/ IsEmptyRun

SpecOperators == InitOperators /\ [][OperatorsNext]_vars

\* ================================================= WindowWhen properties
LogIdx == DOMAIN wLog

CountOp(op) == Cardinality({i \in LogIdx : wLog[i].op = op})

CountEv(op, k) == Cardinality({i \in LogIdx : wLog[i].op = op /\ wLog[i].id = k})

After(i) == (i + 1)..Len(wLog)

\* The window most recently emitted downstream before log position i.
CurrentAt(i) ==
  LET E == {j \in 1..(i - 1) : wLog[j].op = "dest.next"}
  IN  IF E = {} THEN 0 ELSE wLog[CHOOSE j \in E : \A m \in E : m <= j].id

Firings == CountOp("cn.next") + CountOp("cn.complete")

WindowsEmitted == SelectSeq(wLog, LAMBDA e : e.op = "dest.next")

RECURSIVE ConcatWindows(_)
ConcatWindows(ws) ==
  IF ws = <<>>
    THEN <<>>
    ELSE subjects[Head(ws).id].vals \o ConcatWindows(Tail(ws))

\* C1: in a run that is still subscribed, or that ended with the source's
\* completion reaching the outer destination, the destination has received
\* one window more than the notifiers have fired, the windows' contents
\* concatenated in emission order are the source sequence, and every source
\* value went to the window that was current when it was pushed.
C1_Conservation ==
  (wDest = "completed" \/ ~wClosed) =>
    /\ Len(WindowsEmitted) = Firings + 1
    /\ ConcatWindows(WindowsEmitted) = WSrcSeq
    /\ \A i \in LogIdx : wLog[i].op = "win.next" =>
         /\ wLog[i].id = CurrentAt(i)
         /\ wLog[i - 1] = Ev("src.next", 0, wLog[i].v)

C1_Witness ==
  /\ wDest = "completed"
  /\ Firings >= 1
  /\ Len(subjects) >= 2
  /\ subjects[1].vals # <<>>
  /\ subjects[2].vals # <<>>

Emitted(k) == \E i \in LogIdx : wLog[i] = Ev("dest.next", k, 0)

OpenWindows == {k \in 1..Len(subjects) : subjects[k].st = "open" /\ Emitted(k)}

SourceActive == wSrcState = "active" /\ ~wClosed

C2_OneOpen == SourceActive => OpenWindows = {window}

C2_Forward ==
  (SourceActive /\ WSrcSeq' # WSrcSeq) =>
    \E v \in Vals :
      /\ WSrcSeq' = Append(WSrcSeq, v)
      /\ subjects' = [subjects EXCEPT ![window].vals = Append(@, v)]

\* C2: while the source is active exactly one window is open, it is
\* this.window, and a value pushed by the source is appended to that window
\* and changes no other window.
C2_SingleOpenWindow == []C2_OneOpen /\ [][C2_Forward]_vars

C2_Witness ==
  /\ SourceActive
  /\ window = 2
  /\ subjects[1].vals # <<>>
  /\ subjects[2].vals # <<>>

CancelledEarly == wClosed /\ wDest = "active"

\* C3: after the consumer unsubscribed before any terminal event, the source
\* subscription, the window that was open and the notifier subscription that
\* was active are each unsubscribed exactly once and nothing stays tracked;
\* unsubscribing a closed subscriber changes nothing, and an unsubscribe
\* issued from inside every child's teardown changes nothing either.
C3_Cancellation ==
  /\ CancelledEarly =>
       /\ wSrcSub = "closed"
       /\ CountEv("unsub.src", 0) = 1
       /\ subjects[window].st = "open"
       /\ subjects[window].unsub
       /\ CountEv("unsub.win", window) = 1
       /\ inners[window] = "closed"
       /\ \A k \in 1..Len(inners) :
            /\ inners[k] # "active"
            /\ inners[k] = "closed" => CountEv("unsub.cn", k) = 1
       /\ wChildren = <<>>
  /\ wClosed => unsubscribe(W, FALSE) = W /\ unsubscribe(W, TRUE) = W
  /\ ~wClosed => unsubscribe(W, TRUE) = unsubscribe(W, FALSE)

C3_Witness ==
  /\ CancelledEarly
  /\ window >= 2
  /\ subjects[window].unsub
  /\ inners[window] = "closed"

\* C4: a throw of closingSelector for window w is followed at once by the
\* error on the outer destination and then by the same error on window w; no
\* notifier is subscribed for w, and afterwards no window is emitted, no
\* closingSelector call is made and no notifier is subscribed.
C4_SelectorThrow ==
  \A i \in LogIdx : wLog[i].op = "throw" =>
    LET w == wLog[i].id
        e == wLog[i].v
    IN  /\ i < Len(wLog)
        /\ wLog[i + 1] = Ev("dest.error", 0, e)
        /\ \E j \in After(i + 1) : wLog[j] = Ev("win.error", w, e)
        /\ subjects[w].st = "errored"
        /\ subjects[w].err = e
        /\ inners[w] = "none"
        /\ CountEv("cn.subscribe", w) = 0
        /\ wDest = "errored"
        /\ \A j \in After(i) :
             wLog[j].op \notin {"dest.next", "selector", "cn.subscribe"}

C4_Witness ==
  /\ \E i \in LogIdx : wLog[i].op = "throw" /\ wLog[i].id >= 2
  /\ wSrcState = "done"
  /\ \E k \in 1..Len(inners) : CountEv("cn.next", k) >= 1

Teardown == {"unsub.win", "unsub.cn", "unsub.src"}

\* C5: an error e of the active notifier is followed by the error e on the
\* outer destination, after which the log holds nothing but teardown: no
\* window is emitted, no closingSelector call is made, and neither the
\* destination nor any window gets another delivery.
C5_NotifierError ==
  \A i \in LogIdx : wLog[i].op = "cn.error" =>
    /\ wClosed
    /\ wDest = "errored"
    /\ \E j \in After(i) :
         /\ wLog[j] = Ev("dest.error", 0, wLog[i].v)
         /\ \A m \in After(j) : wLog[m].op \in Teardown
    /\ \A j \in After(i) :
         wLog[j].op \notin {"dest.next", "selector", "win.next", "win.complete",
                            "dest.complete", "src.next", "src.error", "src.complete"}

C5_Witness ==
  /\ \E i \in LogIdx : wLog[i].op = "cn.error" /\ wLog[i].id >= 2
  /\ wSrcState = "done"
  /\ Len(WSrcSeq) = MaxSrc

\* C6: an accepted source completion (error e) is followed at once by the
\* completion (error e) of the current window, then by the completion
\* (error e) of the outer destination, and only after that by the
\* unsubscription of the notifier that was active; from then on no notifier
\* is active, no window is emitted and no closingSelector call is made.
C6_SourceTermination ==
  \A i \in LogIdx : wLog[i].op \in {"src.complete", "src.error"} =>
    /\ i + 2 <= Len(wLog)
    /\ wLog[i + 1] = IF wLog[i].op = "src.complete"
                       THEN Ev("win.complete", window, 0)
                       ELSE Ev("win.error", window, wLog[i].v)
    /\ wLog[i + 2] = IF wLog[i].op = "src.complete"
                       THEN Ev("dest.complete", 0, 0)
                       ELSE Ev("dest.error", 0, wLog[i].v)
    /\ \E j \in After(i + 2) : wLog[j] = Ev("unsub.cn", window, 0)
    /\ \A j \in 1..(i + 2) : wLog[j] # Ev("unsub.cn", window, 0)
    /\ \A k \in 1..Len(inners) : inners[k] # "active"
    /\ \A j \in After(i) : wLog[j].op \notin {"dest.next", "selector", "cn.next", "cn.complete"}

C6_Witness ==
  /\ CountOp("src.error") = 1
  /\ window >= 2
  /\ subjects[window].st = "errored"
  /\ subjects[window].vals # <<>>

\* C7: every value and every completion accepted from a notifier unsubscribes
\* that notifier, completes the current window, then emits exactly the next
\* window and then calls closingSelector for it; closingSelector has been
\* called as often as windows have been emitted.
C7_WindowSwitch ==
  /\ CountOp("selector") = CountOp("dest.next")
  /\ \A i \in LogIdx : wLog[i].op \in {"cn.next", "cn.complete"} =>
       LET k == wLog[i].id
       IN  /\ i + 4 <= Len(wLog)
           /\ k = CurrentAt(i)
           /\ wLog[i + 1] = Ev("unsub.cn", k, 0)
           /\ wLog[i + 2] = Ev("win.complete", k, 0)
           /\ wLog[i + 3] = Ev("dest.next", k + 1, 0)
           /\ wLog[i + 4] = Ev("selector", k + 1, 0)
           /\ CountEv("dest.next", k + 1) = 1
           /\ CountEv("selector", k + 1) = 1

C7_Witness ==
  /\ CountOp("cn.next") >= 1
  /\ CountOp("cn.complete") >= 1
  /\ SourceActive

\* ================================================= Distinct properties
DLogIdx == DOMAIN dLog

DCountOp(op) == Cardinality({i \in DLogIdx : dLog[i].op = op})

DAfter(i) == (i + 1)..Len(dLog)

\* The values delivered to the destination, in order.
DOut == ValuesOf(SelectSeq(dLog, LAMBDA e : e.op = "dest.next"))

RECURSIVE IsSubseq(_, _)
IsSubseq(a, b) ==
  IF a = <<>> THEN TRUE
  ELSE IF b = <<>> THEN FALSE
  ELSE IF Head(a) = Head(b) THEN IsSubseq(Tail(a), Tail(b))
  ELSE IsSubseq(a, Tail(b))

NonThrowing == compare \in {"default", "mod2", "less"}

\* Some remembered value m makes compare(m, v) true.
Remembered(v) ==
  \E i \in 1..Len(values) : CompareResult(compare, values[i], v) = "true"

C8_Step ==
  (NonThrowing /\ ~dClosed /\ DSrcSeq' # DSrcSeq) =>
    LET v == DSrcSeq'[Len(DSrcSeq')]
    IN  IF Remembered(v)
          THEN values' = values /\ DOut' = DOut
          ELSE values' = Append(values, v) /\ DOut' = Append(DOut, v)

C8_Output ==
  /\ IsSubseq(DOut, DSrcSeq)
  /\ (compare = "default" /\ DCountOp("flush") = 0 /\ DSrcSeq = <<1, 2, 2, 3, 1>>)
       => DOut = <<1, 2, 3>>

\* C8: with a comparator that does not throw, a source value v is forwarded
\* and appended to memory when compare(m, v) is false for every remembered
\* m, and otherwise neither; the output is a subsequence of the source in
\* source order, and 1,2,2,3,1 gives 1,2,3 with the default comparator.
C8_Filtering == []C8_Output /\ [][C8_Step]_vars

C8_Witness ==
  /\ compare = "less"
  /\ DSrcSeq = <<2, 1, 3, 1, 1>>
  /\ DOut = <<2, 1, 1, 1>>
  /\ values = DOut

\* The source values and flushes taken so far, in order (a flush as 0).
DInputs ==
  LET es == SelectSeq(dLog, LAMBDA e : e.op \in {"src.next", "flush"})
  IN  ValuesOf(es)

C9_Step ==
  (DCountOp("flush")' # DCountOp("flush")) =>
    /\ values' = <<>>
    /\ dLog' = Append(dLog, Ev("flush", 0, 0))
    /\ UNCHANGED <<dClosed, dDest, flushSubscription, dSrcSub>>

C9_AfterFlush ==
  /\ \A i \in DLogIdx :
       (dLog[i].op = "flush" /\ i < Len(dLog) /\ dLog[i + 1].op = "src.next") =>
         /\ i + 2 <= Len(dLog)
         /\ dLog[i + 2] = Ev("dest.next", 0, dLog[i + 1].v)
  /\ (compare = "default" /\ DInputs = <<1, 2, 0, 1>>) => DOut = <<1, 2, 1>>

\* C9: a value emitted by flushes empties the memory, delivers nothing and
\* leaves the subscriber's and the destination's state as they were; the
\* source value taken next after a flush is forwarded, and 1,2,flush,1 gives
\* 1,2,1 with the default comparator.
C9_Flush == []C9_AfterFlush /\ [][C9_Step]_vars

C9_Witness ==
  /\ compare = "default"
  /\ DInputs = <<1, 2, 0, 1>>
  /\ DOut = <<1, 2, 1>>
  /\ values = <<1>>

C10_Step ==
  (DCountOp("throw")' # DCountOp("throw")) =>
    /\ values' = values
    /\ DOut' = DOut

C10_Closed ==
  \A i \in DLogIdx : dLog[i].op = "throw" =>
    /\ i > 1
    /\ dLog[i - 1].op = "src.next"
    /\ i < Len(dLog)
    /\ dLog[i + 1] = Ev("dest.error", 0, dLog[i].v)
    /\ dClosed
    /\ dDest = "errored"
    /\ \A j \in DAfter(i) : dLog[j].op \notin {"dest.next", "dest.complete", "src.next"}
    /\ \A j \in DAfter(i + 1) : dLog[j].op # "dest.error"

\* C10: a throw of compare while a source value is checked is followed at
\* once by that error on the destination; the value is neither forwarded nor
\* appended to memory, the DistinctSubscriber is closed, and nothing more is
\* delivered downstream.
C10_CompareThrows == []C10_Closed /\ [][C10_Step]_vars

C10_Witness ==
  /\ DCountOp("throw") = 1
  /\ DSrcSeq = <<3, 1, 2>>
  /\ DOut = <<3, 1>>
  /\ dSrcState = "done"

\* The DistinctSubscriber was still active when log entry i was written: the
\* source subscription, disposed by every way of closing, was not yet.
DActiveAt(i) == \A j \in 1..(i - 1) : dLog[j].op # "unsub.src"

\* C11: an error e of the flushes notifier that finds the DistinctSubscriber
\* active is followed at once by the error e on the destination; the
\* subscriber is closed, and from then on no source value is taken and
\* nothing more is delivered downstream.
C11_FlushError ==
  \A i \in DLogIdx : (dLog[i].op = "flush.error" /\ DActiveAt(i)) =>
    /\ i < Len(dLog)
    /\ dLog[i + 1] = Ev("dest.error", 0, dLog[i].v)
    /\ dClosed
    /\ dDest = "errored"
    /\ dSrcSub = "closed"
    /\ \A j \in DAfter(i + 1) :
         dLog[j].op \notin {"dest.next", "dest.error", "dest.complete", "src.next"}

C11_Witness ==
  /\ \E i \in DLogIdx : dLog[i].op = "flush.error" /\ DActiveAt(i)
  /\ DOut # <<>>
  /\ dSrcState = "done"

FlushCompleted == flushState = "done" /\ DCountOp("flush.error") = 0

C12_Step ==
  /\ (flushState = "active" /\ FlushCompleted') =>
       UNCHANGED <<values, compare, flushSubscription, dClosed, dDest, dLog, dSrcSub>>
  /\ (FlushCompleted /\ NonThrowing /\ ~dClosed /\ DSrcSeq' # DSrcSeq) =>
       LET v == DSrcSeq'[Len(DSrcSeq')]
       IN  IF Remembered(v)
             THEN values' = values /\ DOut' = DOut
             ELSE values' = Append(values, v) /\ DOut' = Append(DOut, v)

\* C12: the completion of the flushes notifier changes neither the memory,
\* nor the subscriber's or the destination's state, nor the subscriptions,
\* and delivers nothing; source values taken afterwards are filtered against
\* the memory as it was.
C12_FlushComplete == [][C12_Step]_vars

C12_Witness ==
  /\ FlushCompleted
  /\ ~dClosed
  /\ flushSubscription = "active"
  /\ Len(values) = 2
  /\ Len(DSrcSeq) = 4

\* ================================================= IsEmpty properties
ILogIdx == DOMAIN iLog

ICountOp(op) == Cardinality({i \in ILogIdx : iLog[i].op = op})

IAfter(i) == {j \in ILogIdx : j > i}

\* The log entry written when the IsEmptySubscriber takes a pushed event.
Taken(e) ==
  CASE e.op = "next"     -> Ev("src.next", 0, e.v)
    [] e.op = "error"    -> Ev("src.error", 0, e.v)
    [] e.op = "complete" -> Ev("src.complete", 0, 0)

\* The first pushed event is taken unless the consumer unsubscribed before
\* it, and no other event is ever taken.
FirstEventOnly ==
  /\ \A i \in ILogIdx :
       iLog[i].op \in {"src.next", "src.error", "src.complete"} =>
         i = 1 /\ iIn # <<>> /\ iLog[1] = Taken(iIn[1])
  /\ (iIn # <<>> /\ iLog # <<>> /\ iLog[1].op # "unsub.src") => iLog[1] = Taken(iIn[1])

\* C13: the destination receives at most one boolean; the boolean is followed
\* at once, in the same step, by complete; the IsEmptySubscriber and its
\* source subscription are then closed, and no source event pushed after the
\* first value or the completion is taken or has any effect downstream.
C13_SingleEmission ==
  /\ ICountOp("dest.next") <= 1
  /\ FirstEventOnly
  /\ \A i \in ILogIdx : iLog[i].op = "dest.next" =>
       /\ i < Len(iLog)
       /\ iLog[i + 1] = Ev("dest.complete", 0, 0)
       /\ iClosed
       /\ iSrcSub = "closed"
       /\ iDest = "completed"
       /\ \A j \in IAfter(i + 1) : iLog[j].op = "unsub.src"
  /\ \A i \in ILogIdx : iLog[i].op \in {"src.next", "src.complete"} =>
       /\ iClosed
       /\ ICountOp("dest.next") = 1
       /\ Len(iLog) = 4

C13_Witness ==
  /\ Len(iIn) = MaxISrc
  /\ iIn[1].op = "next"
  /\ iIn[2].op = "next"
  /\ iIn[3].op = "complete"
  /\ ICountOp("dest.next") = 1
  /\ ICountOp("dest.complete") = 1

\* C14: the boolean is true exactly when the completion was taken with no
\* value before it, and false exactly when a value was taken; false follows
\* the value at once, whatever the value is and without the source's
\* completion.
C14_ResultValue ==
  /\ FirstEventOnly
  /\ \A i \in ILogIdx : iLog[i].op = "src.next" =>
       i < Len(iLog) /\ iLog[i + 1] = Ev("dest.next", 0, BoolVal(FALSE))
  /\ \A i \in ILogIdx : iLog[i].op = "src.complete" =>
       /\ i < Len(iLog) /\ iLog[i + 1] = Ev("dest.next", 0, BoolVal(TRUE))
       /\ ICountOp("src.next") = 0
  /\ \A i \in ILogIdx : iLog[i].op = "dest.next" =>
       /\ i > 1
       /\ iLog[i].v = BoolVal(TRUE) <=> iLog[i - 1].op = "src.complete"
       /\ iLog[i].v = BoolVal(FALSE) <=> iLog[i - 1].op = "src.next"

C14_Witness ==
  /\ iIn = <<Ev("next", 0, 0)>>
  /\ Len(iLog) > 1
  /\ iLog[2] = Ev("dest.next", 0, BoolVal(FALSE))

\* C15: an error taken from the source is followed at once by the same error
\* on the destination, and neither a boolean nor complete is delivered,
\* before or after it.
C15_SourceError ==
  /\ FirstEventOnly
  /\ \A i \in ILogIdx : iLog[i].op = "src.error" =>
       /\ i < Len(iLog)
       /\ iLog[i + 1] = Ev("dest.error", 0, iLog[i].v)
       /\ ICountOp("dest.error") = 1
       /\ ICountOp("dest.next") = 0
       /\ ICountOp("dest.complete") = 0
       /\ iDest = "errored"

C15_Witness ==
  /\ Len(iIn) = MaxISrc
  /\ iIn[1] = Ev("error", 0, 2)
  /\ iIn[2].op = "next"
  /\ iIn[3].op = "complete"
  /\ Len(iLog) > 1
  /\ iLog[2] = Ev("dest.error", 0, 2)

\* ================================================= properties of all three
DestCalls == {"dest.next", "dest.error", "dest.complete", "dest.late"}

Terminals == {"dest.error", "dest.complete"}

\* In a log: nothing is called on the destination after a terminal event,
\* and at most one terminal event is delivered.
TerminalProtocol(log) ==
  /\ \A i \in DOMAIN log : log[i].op \in Terminals =>
       \A j \in DOMAIN log : j > i => log[j].op \notin DestCalls
  /\ Cardinality({i \in DOMAIN log : log[i].op \in Terminals}) <= 1

\* C16: once the WindowSubscriber, the DistinctSubscriber or the
\* IsEmptySubscriber has delivered error or complete to its destination, it
\* calls next, error or complete on it no more; the destination gets at most
\* one terminal event.
C16_TerminalProtocol ==
  /\ TerminalProtocol(wLog)
  /\ TerminalProtocol(dLog)
  /\ TerminalProtocol(iLog)

C16_Witness ==
  /\ Len(iIn) = MaxISrc
  /\ iIn[1].op = "next"
  /\ iIn[2].op = "complete"
  /\ iIn[3].op = "error"
  /\ ICountOp("dest.complete") = 1

\* ================================================= WindowWhen: notifiers
ActiveInners == {k \in DOMAIN inners : inners[k] = "active"}

\* C17: while the WindowSubscriber is active, closingNotification is the
\* subscription to the notifier of the currently open window, every earlier
\* notifier subscription is unsubscribed, and at most one is active.
C17_TrackedNotifier ==
  ~wClosed =>
    /\ closingNotification = window
    /\ \A k \in DOMAIN inners : k < window => inners[k] # "active"
    /\ Cardinality(ActiveInners) <= 1

\* The parts of C17 the code keeps: earlier subscriptions are unsubscribed
\* and at most one is active.
C17_OneActive ==
  ~wClosed =>
    /\ \A k \in DOMAIN inners : k < window => inners[k] # "active"
    /\ Cardinality(ActiveInners) <= 1

\* Every notifier so far completed without a value.
OnlyCompletions == CountOp("cn.next") = 0 /\ CountOp("cn.error") = 0

\* C18: when the notifiers only complete, each completion is followed in the
\* same step by the completion of the current window, the emission of a new
\* one and a fresh closingSelector call; so with the source active the
\* current window is open and is the one after the last completion, and its
\* own notifier has not completed.
C18_Reopening ==
  OnlyCompletions =>
    /\ \A i \in LogIdx : wLog[i].op = "cn.complete" =>
         LET k == wLog[i].id
         IN  /\ i + 4 <= Len(wLog)
             /\ wLog[i + 2] = Ev("win.complete", k, 0)
             /\ wLog[i + 3] = Ev("dest.next", k + 1, 0)
             /\ wLog[i + 4] = Ev("selector", k + 1, 0)
    /\ SourceActive =>
         /\ window = CountOp("cn.complete") + 1
         /\ CountOp("selector") = CountOp("cn.complete") + 1
         /\ CountEv("cn.complete", window) = 0
         /\ subjects[window].st = "open"
         /\ inners[window] = "active"

C18_Witness ==
  /\ OnlyCompletions
  /\ CountOp("cn.complete") = MaxWindows - 1
  /\ SourceActive
  /\ window = MaxWindows

\* ================================================= Distinct: the memory
\* The log position of the most recent flush, 0 when there was none.
LastFlush ==
  LET F == {i \in DLogIdx : dLog[i].op = "flush"}
  IN  IF F = {} THEN 0 ELSE CHOOSE i \in F : \A j \in F : j <= i

\* The values forwarded downstream since the most recent flush, in order.
ForwardedSinceFlush ==
  ValuesOf(SelectSeq(SubSeq(dLog, LastFlush + 1, Len(dLog)),
                     LAMBDA e : e.op = "dest.next"))

\* C19: while the DistinctSubscriber is active, the memory is the sequence of
\* values forwarded since the most recent flush, in forwarding order; for
\* memory entries m before n, compare(m, n) is false; and with the default
\* comparator no value is in the memory twice.
C19_Memory ==
  ~dClosed =>
    /\ values = ForwardedSinceFlush
    /\ \A i, j \in DOMAIN values :
         i < j => CompareResult(compare, values[i], values[j]) = "false"
    /\ compare = "default" =>
         \A i, j \in DOMAIN values : values[i] = values[j] => i = j

C19_Witness ==
  /\ ~dClosed
  /\ compare = "less"
  /\ DCountOp("flush") = 1
  /\ Len(values) = 2
  /\ Len(DOut) = 4
  /\ Len(DSrcSeq) = MaxDSrc

\* ================================================= WindowWhen: superseded notifier
\* The events of notifier k the WindowSubscriber has acted on.
Switches(k) == CountEv("cn.next", k) + CountEv("cn.complete", k)

C20_Once ==
  /\ \A k \in DOMAIN inners :
       /\ Switches(k) <= 1
       /\ Switches(k) = 1 => inners[k] = "closed" /\ CountEv("cn.error", k) = 0
  /\ \A i \in LogIdx : wLog[i].op \in {"cn.next", "cn.complete"} =>
       LET k == wLog[i].id
       IN  \E u \in After(i) :
             /\ wLog[u] = Ev("unsub.cn", k, 0)
             /\ \A j \in LogIdx : wLog[j] = Ev("dest.next", k + 1, 0) => u < j
  /\ CountOp("dest.next") = 1 + Firings

C20_Step ==
  \A k \in DOMAIN inners :
    (InChildren(W, Res("cn", k)) /\ Switches(k)' # Switches(k)) =>
      /\ ~InChildren(W', Res("cn", k))
      /\ inners'[k] = "closed"
      /\ window' > window

\* C20: the subscription of the notifier that triggers a window switch is
\* removed from the children and unsubscribed before the next window is
\* emitted; each notifier causes at most one switch, whatever it does
\* afterwards, so the windows emitted are one more than the notifier events
\* acted on.
C20_SupersededInert == []C20_Once /\ [][C20_Step]_vars

C20_Witness ==
  /\ CountEv("cn.next", 1) = 1
  /\ CountEv("cn.complete", 1) = 0
  /\ window = 2
  /\ inners = <<"closed", "active">>
  /\ ~InChildren(W, Res("cn", 1))
  /\ SourceActive
  /\ WSrcSeq # <<>>

====
